---- MODULE Spec2Model ----
(***************************************************************************)
(* Navigation policy and popup lifecycle of Claude Desktop for Linux.      *)
(*                                                                         *)
(* Two program variants are modelled: claude_desktop.py ("oauth") and      *)
(* claude_desktop_enhanced.py ("enhanced").  Strings are sequences of      *)
(* one-character strings, so that Python's substring test `a in b` is the  *)
(* character-level test it is in the source.                               *)
(***************************************************************************)
EXTENDS Integers, Sequences, FiniteSets, TLC

\* ---------------------------------------------------------------- strings

s_claude_ai == <<"c", "l", "a", "u", "d", "e", ".", "a", "i">>
s_anthropic_com == <<"a", "n", "t", "h", "r", "o", "p", "i", "c", ".", "c", "o", "m">>
s_accounts_google_com == <<"a", "c", "c", "o", "u", "n", "t", "s", ".", "g", "o", "o", "g", "l", "e", ".", "c", "o", "m">>
s_accounts_anthropic_com == <<"a", "c", "c", "o", "u", "n", "t", "s", ".", "a", "n", "t", "h", "r", "o", "p", "i", "c", ".", "c", "o", "m">>
s_oauth == <<"o", "a", "u", "t", "h">>
s_callback == <<"c", "a", "l", "l", "b", "a", "c", "k">>
s_google == <<"g", "o", "o", "g", "l", "e">>
s_gstatic == <<"g", "s", "t", "a", "t", "i", "c">>
s_googleapis == <<"g", "o", "o", "g", "l", "e", "a", "p", "i", "s">>
s_chat == <<"c", "h", "a", "t">>
s_gstatic_com == <<"g", "s", "t", "a", "t", "i", "c", ".", "c", "o", "m">>
s_googleapis_com == <<"g", "o", "o", "g", "l", "e", "a", "p", "i", "s", ".", "c", "o", "m">>
s_dot == <<".">>

\* Python's `sub in s` on strings: sub occurs in s as a contiguous run.
Contains(s, sub) ==
  \E i \in 0..(Len(s) - Len(sub)) : SubSeq(s, i + 1, i + Len(sub)) = sub

\* Python's str.lower(), on the upper-case letters the modelled URLs use.
LowerChar(c) ==
  CASE c = "A" -> "a" [] c = "B" -> "b" [] c = "C" -> "c" [] c = "H" -> "h"
    [] c = "K" -> "k" [] c = "L" -> "l" [] c = "O" -> "o" [] c = "T" -> "t"
    [] c = "U" -> "u" [] OTHER -> c

lower(s) == [i \in 1..Len(s) |-> LowerChar(s[i])]

\* QUrl.toString(): scheme, ':', then '//' + host when the URL has an
\* authority, then the path and query text.
toString(url) ==
  url.scheme \o <<":">>
    \o (IF url.host # <<>> THEN <<"/", "/">> \o url.host ELSE <<>>)
    \o url.rest

\* QUrl.host(): the authority's host, empty when the URL has none.
host(url) == url.host

\* ------------------------------------------------------------------- URLs

U_home == [scheme |-> <<"h", "t", "t", "p", "s">>,
  host |-> <<"c", "l", "a", "u", "d", "e", ".", "a", "i">>,
  rest |-> <<"/">>]
U_chat == [scheme |-> <<"h", "t", "t", "p", "s">>,
  host |-> <<"c", "l", "a", "u", "d", "e", ".", "a", "i">>,
  rest |-> <<"/", "c", "h", "a", "t">>]
U_api == [scheme |-> <<"h", "t", "t", "p", "s">>,
  host |-> <<"a", "p", "i", ".", "a", "n", "t", "h", "r", "o", "p", "i", "c", ".", "c", "o", "m">>,
  rest |-> <<"/", "v", "1">>]
U_idp_auth == [scheme |-> <<"h", "t", "t", "p", "s">>,
  host |-> <<"a", "c", "c", "o", "u", "n", "t", "s", ".", "g", "o", "o", "g", "l", "e", ".", "c", "o", "m">>,
  rest |-> <<"/", "o", "/", "o", "a", "u", "t", "h", "2", "/", "a", "u", "t", "h", "?", "r", "e", "d", "i", "r", "e", "c", "t", "_", "u", "r", "i", "=", "h", "t", "t", "p", "s", ":", "/", "/", "c", "l", "a", "u", "d", "e", ".", "a", "i", "/", "c", "h", "a", "t">>]
U_idp_signin == [scheme |-> <<"h", "t", "t", "p", "s">>,
  host |-> <<"a", "c", "c", "o", "u", "n", "t", "s", ".", "g", "o", "o", "g", "l", "e", ".", "c", "o", "m">>,
  rest |-> <<"/", "s", "i", "g", "n", "i", "n">>]
U_idp_static == [scheme |-> <<"h", "t", "t", "p", "s">>,
  host |-> <<"s", "s", "l", ".", "g", "s", "t", "a", "t", "i", "c", ".", "c", "o", "m">>,
  rest |-> <<"/", "x", ".", "j", "s">>]
U_idp_api == [scheme |-> <<"h", "t", "t", "p", "s">>,
  host |-> <<"w", "w", "w", ".", "g", "o", "o", "g", "l", "e", "a", "p", "i", "s", ".", "c", "o", "m">>,
  rest |-> <<"/", "v", "3">>]
U_ext == [scheme |-> <<"h", "t", "t", "p", "s">>,
  host |-> <<"e", "x", "a", "m", "p", "l", "e", ".", "o", "r", "g">>,
  rest |-> <<"/">>]
U_ext_oauth == [scheme |-> <<"h", "t", "t", "p", "s">>,
  host |-> <<"e", "x", "a", "m", "p", "l", "e", ".", "o", "r", "g">>,
  rest |-> <<"/", "o", "a", "u", "t", "h">>]
U_ext_Callback == [scheme |-> <<"h", "t", "t", "p", "s">>,
  host |-> <<"e", "x", "a", "m", "p", "l", "e", ".", "o", "r", "g">>,
  rest |-> <<"/", "C", "a", "l", "l", "b", "a", "c", "k">>]
U_ext_query == [scheme |-> <<"h", "t", "t", "p", "s">>,
  host |-> <<"e", "v", "i", "l", ".", "e", "x", "a", "m", "p", "l", "e", ".", "c", "o", "m">>,
  rest |-> <<"/", "p", "a", "t", "h", "?", "x", "=", "c", "l", "a", "u", "d", "e", ".", "a", "i">>]
U_spoof_suffix == [scheme |-> <<"h", "t", "t", "p", "s">>,
  host |-> <<"c", "l", "a", "u", "d", "e", ".", "a", "i", ".", "e", "v", "i", "l", ".", "e", "x", "a", "m", "p", "l", "e">>,
  rest |-> <<"/">>]
U_spoof_prefix == [scheme |-> <<"h", "t", "t", "p", "s">>,
  host |-> <<"n", "o", "t", "a", "n", "t", "h", "r", "o", "p", "i", "c", ".", "c", "o", "m", ".", "a", "t", "t", "a", "c", "k", "e", "r", ".", "n", "e", "t">>,
  rest |-> <<"/">>]
U_spoof_google == [scheme |-> <<"h", "t", "t", "p", "s">>,
  host |-> <<"g", "o", "o", "g", "l", "e", ".", "e", "v", "i", "l", ".", "e", "x", "a", "m", "p", "l", "e">>,
  rest |-> <<"/">>]
U_nohost == [scheme |-> <<"m", "a", "i", "l", "t", "o">>,
  host |-> <<>>,
  rest |-> <<"s", "o", "m", "e", "o", "n", "e", "@", "c", "l", "a", "u", "d", "e", ".", "a", "i">>]
U_nohost_oauth == [scheme |-> <<"m", "a", "i", "l", "t", "o">>,
  host |-> <<>>,
  rest |-> <<"o", "a", "u", "t", "h", "@", "e", "v", "i", "l", ".", "e", "x", "a", "m", "p", "l", "e">>]
U_blank == [scheme |-> <<"a", "b", "o", "u", "t">>,
  host |-> <<>>,
  rest |-> <<"b", "l", "a", "n", "k">>]

\* The URLs navigation requests are drawn from.
Urls ==
  { U_home, U_chat, U_api, U_idp_auth, U_idp_signin, U_idp_static, U_idp_api,
    U_ext, U_ext_oauth, U_ext_Callback, U_ext_query,
    U_spoof_suffix, U_spoof_prefix, U_spoof_google, U_nohost, U_nohost_oauth }

\* The URLs of a login flow, used where popups are explored.
FlowUrls == { U_chat, U_idp_auth, U_ext }

\* QWebEnginePage.NavigationType values that requests are drawn from.
NavigationTypes == { "LinkClicked", "Redirect", "Typed" }

FlowNavigationTypes == { "LinkClicked", "Redirect" }

\* --------------------------------------------------------- bounds and state

\* Number of popup pages createWindow may create in one run.
MaxPopups == 2

MainPage == 0

PageIds == 0..MaxPopups

PopupIds == 1..MaxPopups

VARIABLES
  variant,     \* which program runs: "oauth" (claude_desktop.py) or "enhanced"
  pages,       \* page id -> the ClaudeWebPage and the view showing it
  lastNav,     \* the last acceptNavigationRequest call: inputs, result, effect
  lastCreate,  \* the last createWindow call: the opener's URL and the result
  app_quit,    \* QApplication.quit() has been called
  clock,       \* datetime.now(), in ticks
  files,       \* the conversations directory: file name -> content
  startup,     \* ConversationManager.__init__: "none", "ok" or "raised"
  conversations,         \* ConversationManager.conversations
  current_conversation,  \* ClaudeDesktopApp.current_conversation
  lastSave,    \* the last handler's save_conversation call, if it made one
  lastDelete,  \* the last handler's delete_conversation call, if it made one
  lastSearch,  \* the last perform_search: text, query and results shown
  lastClose,   \* the last handler, if a Quit or a window close: what it did
  disk         \* what writing a file does now: "ok", "denied" or "full"

navVars == <<variant, pages, lastNav, lastCreate, app_quit>>

storeVars ==
  <<clock, files, startup, conversations, current_conversation,
    lastSave, lastDelete, lastSearch, lastClose, disk>>

vars == <<navVars, storeVars>>

\* ------------------------------------------------- acceptNavigationRequest

\* claude_desktop.py, allowed_domains.
allowed_domains ==
  { s_claude_ai, s_anthropic_com, s_accounts_google_com, s_accounts_anthropic_com }

\* claude_desktop_enhanced.py, allowed_domains.
enhanced_allowed_domains == { s_claude_ai, s_anthropic_com }

Allow == [accept |-> TRUE, opened |-> FALSE]

\* QDesktopServices.openUrl(url); return False
HandOff == [accept |-> FALSE, opened |-> TRUE]

\* claude_desktop.py with the Google-authentication test left out.
acceptNavigationRequest_NoGoogle(url, nav_type, is_main_frame) ==
  LET url_string == toString(url) IN
  IF \E domain \in allowed_domains : Contains(host(url), domain) THEN Allow
  ELSE IF Contains(lower(url_string), s_oauth)
          \/ Contains(lower(url_string), s_callback) THEN Allow
  ELSE IF nav_type = "LinkClicked"
          /\ ~ \E domain \in allowed_domains : Contains(host(url), domain)
       THEN HandOff
  ELSE Allow

\* claude_desktop.py with the allow-list test comparing the whole host
\* (url.host() == domain) where the code tests containment.
acceptNavigationRequest_ExactHost(url, nav_type, is_main_frame) ==
  LET url_string == toString(url) IN
  IF \E domain \in allowed_domains : host(url) = domain THEN Allow
  ELSE IF Contains(lower(url_string), s_oauth)
          \/ Contains(lower(url_string), s_callback) THEN Allow
  ELSE IF Contains(host(url), s_google) \/ Contains(host(url), s_gstatic)
          \/ Contains(host(url), s_googleapis) THEN Allow
  ELSE IF nav_type = "LinkClicked"
          /\ ~ \E domain \in allowed_domains : host(url) = domain
       THEN HandOff
  ELSE Allow

\* claude_desktop.py: the decision and whether the system browser was
\* opened.  is_main_frame is not read.
acceptNavigationRequest(url, nav_type, is_main_frame) ==
  LET url_string == toString(url) IN
  IF \E domain \in allowed_domains : Contains(host(url), domain) THEN Allow
  ELSE IF Contains(lower(url_string), s_oauth)
          \/ Contains(lower(url_string), s_callback) THEN Allow
  ELSE IF Contains(host(url), s_google) \/ Contains(host(url), s_gstatic)
          \/ Contains(host(url), s_googleapis) THEN Allow
  ELSE IF nav_type = "LinkClicked"
          /\ ~ \E domain \in allowed_domains : Contains(host(url), domain)
       THEN HandOff
  ELSE Allow

\* claude_desktop_enhanced.py returning False on a clicked link without the
\* QDesktopServices.openUrl call before it.
enhanced_acceptNavigationRequest_Blocks(url, nav_type, is_main_frame) ==
  IF \E domain \in enhanced_allowed_domains : Contains(host(url), domain)
  THEN Allow
  ELSE IF nav_type = "LinkClicked" THEN [accept |-> FALSE, opened |-> FALSE]
  ELSE Allow

\* claude_desktop_enhanced.py.  is_main_frame is not read.
enhanced_acceptNavigationRequest(url, nav_type, is_main_frame) ==
  IF \E domain \in enhanced_allowed_domains : Contains(host(url), domain)
  THEN Allow
  ELSE IF nav_type = "LinkClicked" THEN HandOff
  ELSE Allow

\* The running variant's ClaudeWebPage.acceptNavigationRequest.
Decide(url, nav_type, is_main_frame) ==
  IF variant = "oauth"
  THEN acceptNavigationRequest(url, nav_type, is_main_frame)
  ELSE enhanced_acceptNavigationRequest(url, nav_type, is_main_frame)

\* ------------------------------------------------------------------ popups

\* A popup is a ClaudeWebPage with a top-level QWebEngineView of its own.
\* page.view() is read as the view that shows the page (the one createWindow
\* set the page on); the view lives as long as the page, open or closed.

NoPage ==
  [exists |-> FALSE, url |-> U_blank, open |-> FALSE, opener |-> MainPage,
   closedBy |-> "none", profile |-> "default"]

\* create_chat_panel: the main page, at https://claude.ai/, and no popup.
InitialPages ==
  [p \in PageIds |->
     IF p = MainPage
     THEN [exists |-> TRUE, url |-> U_home, open |-> TRUE,
           opener |-> MainPage, closedBy |-> "none", profile |-> "default"]
     ELSE NoPage]

NoNav ==
  [valid |-> FALSE, url |-> U_blank, nav_type |-> "Typed",
   is_main_frame |-> TRUE, accept |-> TRUE, opened |-> FALSE]

NoCreate == [valid |-> FALSE, openerUrl |-> U_blank, created |-> FALSE]

\* The last handler was no Quit and no window close.  Otherwise ui is the
\* event ("quit" for the tray's Quit or Ctrl+Q, "close_window" for closing
\* the window), to_tray whether the handler only hid the window,
\* geometry_saved whether it ran settings.setValue("geometry", ...).
NoClose == [ui |-> "none", to_tray |-> FALSE, geometry_saved |-> FALSE]

\* handle_popup_url closing the view again although it is already closed.
handle_popup_url_Reclose(url, page) ==
  IF Contains(toString(url), s_claude_ai) /\ Contains(toString(url), s_chat)
  THEN [page EXCEPT !.open = FALSE, !.closedBy = "policy"]
  ELSE page

\* handle_popup_url(url, page): the popup page's record after the slot ran.
\* page.view() is the view createWindow gave the page; close() on a view
\* that is already closed changes nothing.
handle_popup_url(url, page) ==
  IF Contains(toString(url), s_claude_ai) /\ Contains(toString(url), s_chat)
  THEN IF page.open
       THEN [page EXCEPT !.open = FALSE, !.closedBy = "policy"]
       ELSE page
  ELSE page

\* The engine commits an accepted main-frame navigation: the page's URL
\* changes and urlChanged is emitted; a popup's urlChanged is connected to
\* handle_popup_url, which runs inside the emission.
UrlChanged(p, url) ==
  LET page == [pages[p] EXCEPT !.url = url] IN
  IF p \in PopupIds /\ pages[p].url # url
  THEN handle_popup_url(url, page)
  ELSE page

\* A navigation request of page p: acceptNavigationRequest decides, and the
\* engine navigates the main frame when it was accepted.
Navigate(p, url, nav_type, is_main_frame) ==
  /\ ~app_quit
  /\ pages[p].exists
  /\ LET d == Decide(url, nav_type, is_main_frame) IN
       /\ lastNav' = [valid |-> TRUE, url |-> url, nav_type |-> nav_type,
                      is_main_frame |-> is_main_frame,
                      accept |-> d.accept, opened |-> d.opened]
       /\ pages' = IF d.accept /\ is_main_frame
                   THEN [pages EXCEPT ![p] = UrlChanged(p, url)]
                   ELSE pages
  /\ UNCHANGED <<variant, lastCreate, app_quit>>
  /\ UNCHANGED storeVars

\* createWindow giving the popup page a profile of its own.
createWindow_OwnProfile(p) ==
  /\ variant = "oauth"
  /\ ~app_quit
  /\ pages[p].exists
  /\ \E q \in PopupIds :
       /\ ~pages[q].exists
       /\ \A r \in PopupIds : r < q => pages[r].exists
       /\ pages' = [pages EXCEPT ![q] =
                      [exists |-> TRUE, url |-> U_blank, open |-> TRUE,
                       opener |-> p, closedBy |-> "none",
                       profile |-> "popup"]]
       /\ lastCreate' = [valid |-> TRUE, openerUrl |-> pages[p].url,
                         created |-> TRUE]
  /\ UNCHANGED <<variant, lastNav, app_quit>>
  /\ UNCHANGED storeVars

\* createWindow(window_type) on page p (claude_desktop.py only; the enhanced
\* variant does not override it and gets no popup).
createWindow(p) ==
  /\ variant = "oauth"
  /\ ~app_quit
  /\ pages[p].exists
  /\ \E q \in PopupIds :
       /\ ~pages[q].exists
       /\ \A r \in PopupIds : r < q => pages[r].exists
       /\ pages' = [pages EXCEPT ![q] =
                      [exists |-> TRUE, url |-> U_blank, open |-> TRUE,
                       opener |-> p, closedBy |-> "none",
                       profile |-> pages[p].profile]]
       /\ lastCreate' = [valid |-> TRUE, openerUrl |-> pages[p].url,
                         created |-> TRUE]
  /\ UNCHANGED <<variant, lastNav, app_quit>>
  /\ UNCHANGED storeVars

\* The user closes a popup window.
UserClosePopup(q) ==
  /\ ~app_quit
  /\ q \in PopupIds
  /\ pages[q].exists /\ pages[q].open
  /\ pages' = [pages EXCEPT ![q].open = FALSE, ![q].closedBy = "user"]
  /\ UNCHANGED <<variant, lastNav, lastCreate, app_quit>>
  /\ UNCHANGED storeVars

\* ------------------------------------------------------- conversation store

\* Clock ticks in one second: strftime("%Y%m%d_%H%M%S") keeps the second,
\* isoformat() keeps the tick.
TicksPerSecond == 2

\* The last tick of the clock.  The application starts at tick
\* TicksPerSecond, the first of second 1; the records of earlier runs were
\* made in second 0.
MaxClock == 4

\* Number of records ConversationManager.conversations may hold in one run.
MaxConversations == 2

\* datetime.now().strftime("%Y%m%d_%H%M%S"): the second of tick t.  Ids and
\* file names ('<id>.json') are such seconds.
strftime(t) == t \div TicksPerSecond

\* created_at and updated_at hold the tick of datetime.now().isoformat():
\* ISO strings have fixed-width fields and compare as their instants do.
\* Tick 0 stands for '', the default of x.get('updated_at', '').
FileNames == 0..strftime(MaxClock)

\* conversation.get('id', ...) finding no 'id' key.
NoId == -1

NoRecord ==
  [id |-> NoId, title |-> <<>>, messages |-> <<>>,
   created_at |-> 0, updated_at |-> 0]

\* What a file of the directory can hold: nothing ("absent", no such file),
\* a JSON object ("object"), a JSON object whose updated_at is a number
\* ("object_num_time"), JSON that is not an object ("array"), text that is
\* not JSON ("text"), or the beginning of a JSON object ("partial").
Absent == [kind |-> "absent", value |-> NoRecord]

Partial == [kind |-> "partial", value |-> NoRecord]

\* json.dump(conversation, f, indent=2) into a file opened with 'w'.
json_dump(conversation) == [kind |-> "object", value |-> conversation]

\* The files json.load reads without raising (the others are skipped by the
\* except clause).
Parsed(fs) ==
  { f \in FileNames : fs[f].kind \in { "object", "object_num_time", "array" } }

\* sorted(conversations, key=lambda x: x.get('updated_at', ''), reverse=True)
\* raises, outside the try: AttributeError when an element is not a dict,
\* TypeError when a string key is compared with a number key.
LoadRaises(fs) ==
  \/ \E f \in Parsed(fs) : fs[f].kind = "array"
  \/ \E f, g \in Parsed(fs) :
       fs[f].kind = "object" /\ fs[g].kind = "object_num_time"

Orderings(S) ==
  { o \in [1..Cardinality(S) -> S] :
      \A i, j \in 1..Cardinality(S) : i # j => o[i] # o[j] }

\* load_conversations(): the lists it can return when it does not raise.
\* glob yields the files in any order; sorted is stable, so records with
\* equal updated_at come in glob's order.
load_conversations(fs) ==
  LET P == Parsed(fs)
      n == Cardinality(P)
  IN { [i \in 1..n |-> fs[o[i]].value] :
         o \in { o \in Orderings(P) :
                   \A i, j \in 1..n :
                     i < j => fs[o[i]].value.updated_at
                                >= fs[o[j]].value.updated_at } }

\* save_conversation naming the file after the clock although the record
\* has an id.
save_conversation_TimestampName(conversation, now) ==
  [file |-> strftime(now),
   conversation |-> [conversation EXCEPT !.updated_at = now]]

\* save_conversation stamping created_at as well as updated_at.
save_conversation_Restamped(conversation, now) ==
  LET conv_id == IF conversation.id = NoId THEN strftime(now)
                 ELSE conversation.id
  IN [file |-> conv_id,
      conversation |-> [conversation EXCEPT !.updated_at = now,
                                            !.created_at = now]]

\* save_conversation(conversation) at tick now: the file it writes and the
\* record it returns, which is the argument itself with updated_at set.
save_conversation(conversation, now) ==
  LET conv_id == IF conversation.id = NoId THEN strftime(now)
                 ELSE conversation.id
  IN [file |-> conv_id,
      conversation |-> [conversation EXCEPT !.updated_at = now]]

\* create_new_conversation(title): the record is built at tick t0 and saved
\* at tick now.
create_new_conversation(title, t0, now) ==
  save_conversation(
    [id |-> strftime(t0), title |-> title, messages |-> <<>>,
     created_at |-> t0, updated_at |-> t0], now)

\* [c for c in self.conversations if c.get('id') != conv_id]
Keep(convs, conv_id) ==
  SelectSeq(convs, LAMBDA c : c.id # conv_id)

\* delete_conversation removing the file and leaving the list as it is.
delete_conversation_FileOnly(conv_id) ==
  [files |-> [files EXCEPT ![conv_id] = Absent],
   conversations |-> conversations]

\* ConversationManager.delete_conversation(conv_id): the directory and the
\* list afterwards.
delete_conversation(conv_id) ==
  IF files[conv_id].kind # "absent"
  THEN [files |-> [files EXCEPT ![conv_id] = Absent],
        conversations |-> Keep(conversations, conv_id)]
  ELSE [files |-> files, conversations |-> conversations]

\* for msg in conv.get('messages', []): ... break
AnyMessageMatches(msgs, query_lower) ==
  \E k \in 1..Len(msgs) : Contains(lower(msgs[k].content), query_lower)

RECURSIVE search_from(_, _, _)
\* The loop of search_conversations from list position i on.
search_from(convs, query_lower, i) ==
  IF i > Len(convs) THEN <<>>
  ELSE IF Contains(lower(convs[i].title), query_lower)
       THEN <<convs[i]>> \o search_from(convs, query_lower, i + 1)
  ELSE IF AnyMessageMatches(convs[i].messages, query_lower)
       THEN <<convs[i]>> \o search_from(convs, query_lower, i + 1)
  ELSE search_from(convs, query_lower, i + 1)

\* search_conversations comparing the query as typed, not lowered.
search_conversations_CaseSensitive(query) ==
  search_from(conversations, query, 1)

\* search_conversations(query)
search_conversations(query) == search_from(conversations, lower(query), 1)

NoCurrent == [kind |-> "none", index |-> 0, rec |-> NoRecord]

\* current_conversation is a reference: to an element of the list
\* ("listed", by position), or to a record that is in the list no more
\* ("detached").
Listed(i) == [kind |-> "listed", index |-> i, rec |-> NoRecord]

CurrentRecord ==
  IF current_conversation.kind = "listed"
  THEN conversations[current_conversation.index]
  ELSE current_conversation.rec

\* The last call of save_conversation: whether it returned (valid) or raised
\* (failed), whether the exception left the handler (escaped), the handler
\* that made the call (op), whether the directory was empty before it, the
\* record passed, and the record in memory afterwards.
NoSave ==
  [valid |-> FALSE, failed |-> FALSE, escaped |-> FALSE, op |-> "none",
   store_was_empty |-> FALSE, before |-> NoRecord, after |-> NoRecord]

StoreIsEmpty == \A f \in FileNames : files[f].kind = "absent"

SaveDone(op, before, after) ==
  [valid |-> TRUE, failed |-> FALSE, escaped |-> FALSE, op |-> op,
   store_was_empty |-> StoreIsEmpty, before |-> before, after |-> after]

\* No handler has a try around save_conversation: what it raises leaves the
\* handler.
SaveFailed(op, before, after) ==
  [valid |-> FALSE, failed |-> TRUE, escaped |-> TRUE, op |-> op,
   store_was_empty |-> StoreIsEmpty, before |-> before, after |-> after]

\* What `with open(filename, 'w') as f: json.dump(...)` does: it writes the
\* record ("ok"), or open raises and the file is as it was ("denied"), or
\* the disk is full and the write raises after the file was truncated
\* ("full").
WriteOutcomes == { "ok", "denied", "full" }

Written(fs, r, outcome) ==
  CASE outcome = "ok" -> [fs EXCEPT ![r.file] = json_dump(r.conversation)]
    [] outcome = "denied" -> fs
    [] outcome = "full" -> [fs EXCEPT ![r.file] = Partial]

\* A handler calls save_conversation(before) at tick now: updated_at is set
\* in the record (line 172) before the file is opened (line 174).
SaveCall(op, before, now) ==
  LET r == save_conversation(before, now) IN
    /\ files' = Written(files, r, disk)
    /\ lastSave' = IF disk = "ok"
                   THEN SaveDone(op, before, r.conversation)
                   ELSE SaveFailed(op, before, r.conversation)
    /\ clock' = now

\* An exception left a handler and PyQt ended the process (its default), or
\* the process ended otherwise.
ProcessEnds ==
  /\ startup' = "none"
  /\ conversations' = <<>>
  /\ current_conversation' = NoCurrent

\* The record current_conversation refers to becomes rec.
SetCurrentRecord(rec) ==
  IF current_conversation.kind = "listed"
  THEN /\ conversations' =
            [conversations EXCEPT ![current_conversation.index] = rec]
       /\ UNCHANGED current_conversation
  ELSE /\ current_conversation' = [current_conversation EXCEPT !.rec = rec]
       /\ UNCHANGED conversations

\* The last call of delete_conversation: its argument, whether the file was
\* there, and whether the call before it was a delete of the same id.
NoDelete == [valid |-> FALSE, id |-> NoId, found |-> FALSE, repeat |-> FALSE]

\* The last perform_search: whether the dialog ran it, the text typed,
\* whether search_conversations was called (valid) and with which query, and
\* the results the dialog shows.
NoSearch ==
  [dialog |-> FALSE, text |-> <<>>, valid |-> FALSE, query |-> <<>>,
   results |-> <<>>]

\* The characters str.strip() removes.
Whitespace == { " ", "\t", "\n" }

RECURSIVE lstrip(_)
lstrip(s) ==
  IF s # <<>> /\ Head(s) \in Whitespace THEN lstrip(Tail(s)) ELSE s

RECURSIVE rstrip(_)
rstrip(s) ==
  IF s # <<>> /\ s[Len(s)] \in Whitespace
  THEN rstrip(SubSeq(s, 1, Len(s) - 1))
  ELSE s

\* self.search_input.text().strip()
strip(s) == rstrip(lstrip(s))

\* perform_search calling search_conversations whatever the query is.
perform_search_NoGuard(text) ==
  [dialog |-> TRUE, text |-> text, valid |-> TRUE, query |-> strip(text),
   results |-> search_conversations(strip(text))]

\* SearchDialog.perform_search on the text of the input field: what the
\* dialog shows afterwards.
perform_search(text) ==
  LET query == strip(text) IN
    IF query = <<>>
    THEN [dialog |-> TRUE, text |-> text, valid |-> FALSE, query |-> query,
          results |-> <<>>]
    ELSE [dialog |-> TRUE, text |-> text, valid |-> TRUE, query |-> query,
          results |-> search_conversations(query)]

\* The ticks a datetime.now() call of a handler started at tick clock reads.
Now == { t \in clock..(clock + 1) : t <= MaxClock }

\* ConversationManager.__init__ and the end of ClaudeDesktopApp.__init__:
\* the process starts, loads the list and loads its first record.
Launch ==
  /\ startup \in { "none", "raised" }
  /\ IF LoadRaises(files)
     THEN /\ startup' = "raised"
          /\ conversations' = <<>>
          /\ current_conversation' = NoCurrent
     ELSE /\ startup' = "ok"
          /\ conversations' \in load_conversations(files)
          /\ current_conversation' =
               IF conversations' # <<>> THEN Listed(1) ELSE NoCurrent
  /\ lastSave' = NoSave /\ lastDelete' = NoDelete /\ lastSearch' = NoSearch
  /\ pages' = InitialPages
  /\ lastNav' = NoNav /\ lastCreate' = NoCreate
  /\ app_quit' = FALSE
  /\ lastClose' = NoClose
  /\ UNCHANGED <<variant, clock, files, disk>>

\* The process is killed.
Kill ==
  /\ startup = "ok"
  /\ startup' = "none"
  /\ conversations' = <<>>
  /\ current_conversation' = NoCurrent
  /\ lastSave' = NoSave /\ lastDelete' = NoDelete /\ lastSearch' = NoSearch
  /\ UNCHANGED <<clock, files>>
  /\ lastClose' = NoClose
  /\ UNCHANGED disk
  /\ UNCHANGED navVars

\* Time passes.
Tick ==
  /\ clock < MaxClock
  /\ clock' = clock + 1
  /\ UNCHANGED <<files, startup, conversations, current_conversation,
                 lastSave, lastDelete, lastSearch, lastClose, disk>>
  /\ UNCHANGED navVars

\* An exception leaves a handler: PyQt ends the process (its default), or
\* an exception hook is installed and the event loop goes on, with the
\* record current_conversation or the list refers to changed as rec says.
Unhandled(rec_change) ==
  \E aborts \in BOOLEAN : IF aborts THEN ProcessEnds ELSE rec_change

\* ClaudeDesktopApp.new_chat of the enhanced variant, the only caller of
\* create_new_conversation.  When the save raises, the record is not listed.
new_chat(title) ==
  /\ startup = "ok"
  /\ variant = "enhanced"
  /\ title # <<>>
  /\ Len(conversations) < MaxConversations
  /\ \E now \in Now :
       LET r == create_new_conversation(title, clock, now) IN
         /\ SaveCall("create", [r.conversation EXCEPT !.updated_at = clock],
                     now)
         /\ IF disk = "ok"
            THEN /\ conversations' = <<r.conversation>> \o conversations
                 /\ current_conversation' = Listed(1)
                 /\ UNCHANGED startup
            ELSE Unhandled(UNCHANGED <<startup, conversations,
                                       current_conversation>>)
  /\ lastDelete' = NoDelete /\ lastSearch' = NoSearch
  /\ lastClose' = NoClose
  /\ UNCHANGED disk
  /\ UNCHANGED navVars

\* ClaudeDesktopApp.rename_conversation on the list's item i: the record is
\* changed in place and saved; the list is displayed again as it is.
rename_conversation(i, new_title) ==
  /\ startup = "ok"
  /\ i \in 1..Len(conversations)
  /\ new_title # <<>>
  /\ \E now \in Now :
       LET conv == [conversations[i] EXCEPT !.title = new_title]
           r == save_conversation(conv, now)
           changed ==
             /\ conversations' = [conversations EXCEPT ![i] = r.conversation]
             /\ UNCHANGED <<startup, current_conversation>>
       IN /\ SaveCall("rename", conv, now)
          /\ IF disk = "ok" THEN changed ELSE Unhandled(changed)
  /\ lastDelete' = NoDelete /\ lastSearch' = NoSearch
  /\ lastClose' = NoClose
  /\ UNCHANGED disk
  /\ UNCHANGED navVars

\* save_conversation(self.current_conversation) at tick now has set
\* updated_at in the current record.
CurrentSaved(now) ==
  /\ SetCurrentRecord(save_conversation(CurrentRecord, now).conversation)
  /\ UNCHANGED startup

\* ClaudeDesktopApp.save_current_chat (enhanced variant, Ctrl+S).
save_current_chat ==
  /\ startup = "ok"
  /\ variant = "enhanced"
  /\ current_conversation.kind # "none"
  /\ \E now \in Now :
       /\ SaveCall("save", CurrentRecord, now)
       /\ IF disk = "ok"
          THEN CurrentSaved(now)
          ELSE Unhandled(CurrentSaved(now))
  /\ lastDelete' = NoDelete /\ lastSearch' = NoSearch
  /\ lastClose' = NoClose
  /\ UNCHANGED disk
  /\ UNCHANGED navVars

\* `if self.current_conversation and self.settings.value("auto_save", ...)`
AutoSaves(auto_save) == auto_save /\ current_conversation.kind # "none"

\* The body of ClaudeDesktopApp.close_app (claude_desktop.py), run for the
\* event ui: the current conversation is saved when there is one and
\* auto_save is set, the geometry is saved, and QApplication.quit() ends the
\* process.  When the save raises, neither of the last two is reached.
close_app_body(ui) ==
  /\ variant = "oauth"
  /\ ~app_quit
  /\ startup = "ok"
  /\ \E auto_save \in BOOLEAN :
       IF AutoSaves(auto_save) /\ disk # "ok"
       THEN \E now \in Now :
              /\ SaveCall("autosave", CurrentRecord, now)
              /\ Unhandled(CurrentSaved(now))
              /\ app_quit' = FALSE
              /\ lastClose' = [NoClose EXCEPT !.ui = ui]
       ELSE /\ IF AutoSaves(auto_save)
               THEN \E now \in Now : SaveCall("autosave", CurrentRecord, now)
               ELSE /\ lastSave' = NoSave
                    /\ UNCHANGED <<files, clock>>
            /\ lastClose' = [ui |-> ui, to_tray |-> FALSE,
                             geometry_saved |-> TRUE]
            /\ app_quit' = TRUE
            /\ ProcessEnds
  /\ lastDelete' = NoDelete /\ lastSearch' = NoSearch
  /\ UNCHANGED <<variant, pages, lastNav, lastCreate, disk>>

\* The tray menu's Quit or Ctrl+Q in claude_desktop.py: both are connected
\* to close_app.
close_app == close_app_body("quit")

\* The else branch of closeEvent in claude_desktop_enhanced.py, run for the
\* event ui: auto-save through save_current_chat, geometry saved, event
\* accepted.  QApplication.quit() is not called and
\* setQuitOnLastWindowClosed(False) is set: the process goes on.
enhanced_close_body(ui) ==
  /\ variant = "enhanced"
  /\ \E auto_save \in BOOLEAN :
       IF AutoSaves(auto_save) /\ disk # "ok"
       THEN \E now \in Now :
              /\ SaveCall("autosave", CurrentRecord, now)
              /\ Unhandled(CurrentSaved(now))
              /\ lastClose' = [NoClose EXCEPT !.ui = ui]
       ELSE /\ IF AutoSaves(auto_save)
               THEN \E now \in Now :
                      /\ SaveCall("autosave", CurrentRecord, now)
                      /\ CurrentSaved(now)
               ELSE /\ lastSave' = NoSave
                    /\ UNCHANGED <<files, clock, startup, conversations,
                                   current_conversation>>
            /\ lastClose' = [ui |-> ui, to_tray |-> FALSE,
                             geometry_saved |-> TRUE]
  /\ lastDelete' = NoDelete /\ lastSearch' = NoSearch
  /\ UNCHANGED <<variant, pages, lastNav, lastCreate, app_quit, disk>>

\* closeEvent of either variant, run for the event ui: with minimize_to_tray
\* set and the tray icon visible the event is ignored and the window hidden;
\* otherwise claude_desktop.py calls close_app and the enhanced variant runs
\* its else branch.
closeEvent_body(ui) ==
  /\ ~app_quit
  /\ startup = "ok"
  /\ \E minimize_to_tray \in BOOLEAN, tray_visible \in BOOLEAN :
       IF minimize_to_tray /\ tray_visible
       THEN /\ lastClose' = [NoClose EXCEPT !.ui = ui, !.to_tray = TRUE]
            /\ lastSave' = NoSave
            /\ lastDelete' = NoDelete /\ lastSearch' = NoSearch
            /\ UNCHANGED <<variant, pages, lastNav, lastCreate, app_quit>>
            /\ UNCHANGED <<clock, files, startup, conversations,
                           current_conversation, disk>>
       ELSE \/ close_app_body(ui)
            \/ enhanced_close_body(ui)

\* The user closes the main window.
closeEvent == closeEvent_body("close_window")

\* The tray menu's Quit or Ctrl+Q in claude_desktop_enhanced.py: both are
\* connected to the window's close(), which delivers the close event.
enhanced_quit ==
  /\ variant = "enhanced"
  /\ closeEvent_body("quit")

\* The process dies inside save_conversation's `with open(filename, 'w')`
\* while rename_conversation saves item i: the file is truncated and the
\* record written in part.
CrashInSave(i) ==
  /\ startup = "ok"
  /\ i \in 1..Len(conversations)
  /\ files' = [files EXCEPT
                 ![save_conversation(conversations[i], clock).file] = Partial]
  /\ startup' = "none"
  /\ conversations' = <<>>
  /\ current_conversation' = NoCurrent
  /\ lastSave' = NoSave /\ lastDelete' = NoDelete /\ lastSearch' = NoSearch
  /\ UNCHANGED clock
  /\ lastClose' = NoClose
  /\ UNCHANGED disk
  /\ UNCHANGED navVars

\* ClaudeDesktopApp.delete_conversation on an item whose record has id
\* conv_id, or any other call of ConversationManager.delete_conversation.
\* current_conversation keeps referring to the record it referred to.
app_delete_conversation(conv_id) ==
  /\ startup = "ok"
  /\ LET d == delete_conversation(conv_id)
         cur == current_conversation
     IN /\ files' = d.files
        /\ conversations' = d.conversations
        /\ current_conversation' =
             IF cur.kind # "listed" \/ d.conversations = conversations
             THEN cur
             ELSE IF conversations[cur.index].id = conv_id
                  THEN [kind |-> "detached", index |-> 0,
                        rec |-> conversations[cur.index]]
                  ELSE Listed(Len(Keep(SubSeq(conversations, 1, cur.index),
                                       conv_id)))
  /\ lastDelete' = [valid |-> TRUE, id |-> conv_id,
                     found |-> files[conv_id].kind # "absent",
                     repeat |-> lastDelete.valid /\ lastDelete.id = conv_id]
  /\ lastSave' = NoSave /\ lastSearch' = NoSearch
  /\ UNCHANGED <<clock, startup>>
  /\ lastClose' = NoClose
  /\ UNCHANGED disk
  /\ UNCHANGED navVars

\* ClaudeDesktopApp.on_conversation_selected on the list's item i.
on_conversation_selected(i) ==
  /\ startup = "ok"
  /\ i \in 1..Len(conversations)
  /\ current_conversation' = Listed(i)
  /\ lastSave' = NoSave /\ lastDelete' = NoDelete /\ lastSearch' = NoSearch
  /\ UNCHANGED <<clock, files, startup, conversations>>
  /\ lastClose' = NoClose
  /\ UNCHANGED disk
  /\ UNCHANGED navVars

\* The search dialog's input changes to text, or its Search button is
\* clicked: SearchDialog.perform_search.
Search(text) ==
  /\ startup = "ok"
  /\ lastSearch' = perform_search(text)
  /\ lastSave' = NoSave /\ lastDelete' = NoDelete
  /\ UNCHANGED <<clock, files, startup, conversations, current_conversation>>
  /\ lastClose' = NoClose
  /\ UNCHANGED disk
  /\ UNCHANGED navVars

\* ------------------------------------------------------------ specifications

InitNav ==
  /\ variant \in { "oauth", "enhanced" }
  /\ pages = InitialPages
  /\ lastNav = NoNav
  /\ lastCreate = NoCreate
  /\ app_quit = FALSE

\* The application started on an empty conversations directory.
Init ==
  /\ InitNav
  /\ clock = TicksPerSecond
  /\ files = [f \in FileNames |-> Absent]
  /\ startup = "ok"
  /\ conversations = <<>>
  /\ current_conversation = NoCurrent
  /\ lastSave = NoSave /\ lastDelete = NoDelete /\ lastSearch = NoSearch
  /\ lastClose = NoClose
  /\ disk = "ok"

\* The policy decisions: every request the main page can be asked to decide.
NextNav ==
  \E url \in Urls, nav_type \in NavigationTypes, is_main_frame \in BOOLEAN :
    Navigate(MainPage, url, nav_type, is_main_frame)

SpecNav == Init /\ [][NextNav]_vars

\* A login flow: navigation of the main page and of popups, popup creation
\* and closing, and quitting.
Next ==
  \/ \E p \in PageIds, url \in FlowUrls, nav_type \in FlowNavigationTypes,
        is_main_frame \in BOOLEAN : Navigate(p, url, nav_type, is_main_frame)
  \/ \E p \in PageIds : createWindow(p)
  \/ \E q \in PopupIds : UserClosePopup(q)
  \/ close_app

Spec == Init /\ [][Next]_vars

\* The popups alone: pages opening popups, the popups' location changes and
\* the user closing them.
NextPopups ==
  \/ \E p \in PageIds : createWindow(p)
  \/ \E q \in PopupIds, url \in FlowUrls : Navigate(q, url, "Redirect", TRUE)
  \/ \E q \in PopupIds : UserClosePopup(q)

SpecPopups == Init /\ [][NextPopups]_vars

\* The files a directory holds at the start of the application.
ManagerFileNames == 0..1

\* Titles the user types, search queries, and message texts.
t_Chat == <<"C", "h", "a", "t">>

t_Oath == <<"O", "a", "t", "h">>

m_Toll == <<"T", "o", "l", "l">>

m_Hat == <<"H", "a", "t">>

q_at == <<"a", "t">>

q_OL == <<"O", "L">>

q_chat == <<"c", "h", "a", "t">>

q_none == <<"b", "u">>

Titles == { t_Chat, t_Oath }

\* Texts of the search field: queries, nothing, blanks, a padded query.
q_empty == <<>>

q_blank == <<" ", "\t">>

q_padded == <<" ", "a", "t", " ">>

Queries == { q_at, q_OL, q_chat, q_none, q_empty, q_blank, q_padded }

StoreQueries == { q_chat, q_blank }

Message(text) == [role |-> "user", content |-> text]

\* A record an earlier run created and saved in second 0.
SeedRecord ==
  [id |-> 0, title |-> t_Chat, messages |-> <<Message(m_Toll)>>,
   created_at |-> 1, updated_at |-> 1]

\* The application started on a directory that earlier runs of the program
\* wrote: empty, or holding one record, which is loaded and current.
InitStore ==
  /\ InitNav
  /\ clock = TicksPerSecond
  /\ startup = "ok"
  /\ \/ /\ files = [f \in FileNames |-> Absent]
        /\ conversations = <<>>
        /\ current_conversation = NoCurrent
     \/ /\ files = [f \in FileNames |->
                      IF f = 0 THEN json_dump(SeedRecord) ELSE Absent]
        /\ conversations = <<SeedRecord>>
        /\ current_conversation = Listed(1)
  /\ lastSave = NoSave /\ lastDelete = NoDelete /\ lastSearch = NoSearch
  /\ lastClose = NoClose
  /\ disk = "ok"

\* The operations on the conversation store, with the process dying and
\* starting again.
NextStore ==
  \/ Launch
  \/ Kill
  \/ Tick
  \/ \E title \in Titles : new_chat(title)
  \/ \E i \in 1..MaxConversations, title \in Titles :
       rename_conversation(i, title)
  \/ save_current_chat
  \/ close_app
  \/ closeEvent
  \/ enhanced_quit
  \/ \E i \in 1..MaxConversations : CrashInSave(i)
  \/ \E conv_id \in FileNames : app_delete_conversation(conv_id)
  \/ \E i \in 1..MaxConversations : on_conversation_selected(i)
  \/ \E query \in StoreQueries : Search(query)

SpecStore == InitStore /\ [][NextStore]_vars

\* The application started on a directory holding one record, and the
\* directory takes no writes: it is read-only, or the disk is full.
InitFaults ==
  /\ InitNav
  /\ clock = TicksPerSecond
  /\ startup = "ok"
  /\ files = [f \in FileNames |->
                IF f = 0 THEN json_dump(SeedRecord) ELSE Absent]
  /\ conversations = <<SeedRecord>>
  /\ current_conversation = Listed(1)
  /\ lastSave = NoSave /\ lastDelete = NoDelete /\ lastSearch = NoSearch
  /\ lastClose = NoClose
  /\ disk \in WriteOutcomes \ { "ok" }

\* A record with no 'id' key, as a file not written by this program may
\* hold it.
NoIdRecord == [SeedRecord EXCEPT !.id = NoId]

\* The application started on a directory whose one file holds a record
\* without an id; load_conversations listed it.
InitNoId ==
  /\ InitNav
  /\ clock = TicksPerSecond
  /\ startup = "ok"
  /\ files = [f \in FileNames |->
                IF f = 0 THEN json_dump(NoIdRecord) ELSE Absent]
  /\ conversations = <<NoIdRecord>>
  /\ current_conversation = Listed(1)
  /\ lastSave = NoSave /\ lastDelete = NoDelete /\ lastSearch = NoSearch
  /\ lastClose = NoClose
  /\ disk = "ok"

\* Saves of a record that has no id.
NextNoId ==
  \/ Tick
  \/ \E i \in 1..MaxConversations, title \in Titles :
       rename_conversation(i, title)
  \/ save_current_chat
  \/ close_app
  \/ Launch

SpecNoId == InitNoId /\ [][NextNoId]_vars

\* The same operations while every write fails.
SpecFaults == InitFaults /\ [][NextStore]_vars

\* Records with no messages, by id.
PlainRecords(f) ==
  { [id |-> f, title |-> t, messages |-> <<>>,
     created_at |-> 1, updated_at |-> 1] : t \in Titles }

\* The lists of at most MaxConversations such records.
PlainLists ==
  UNION { [1..n -> UNION { PlainRecords(f) : f \in ManagerFileNames }] :
            n \in 0..MaxConversations }

\* A running application whose list and directory are any list of records
\* and any directory of record files: the list is the one loaded at the
\* start, the directory is what is there now.
InitDelete ==
  /\ InitNav
  /\ clock = TicksPerSecond
  /\ startup = "ok"
  /\ conversations \in PlainLists
  /\ files \in { fs \in [FileNames -> { Absent } \cup
                           { json_dump(r) :
                               r \in UNION { PlainRecords(f) : f \in FileNames } }] :
                   \A f \in FileNames :
                     /\ fs[f].kind = "object" => fs[f].value.id = f
                     /\ f \notin ManagerFileNames => fs[f] = Absent }
  /\ current_conversation =
       IF conversations # <<>> THEN Listed(1) ELSE NoCurrent
  /\ lastSave = NoSave /\ lastDelete = NoDelete /\ lastSearch = NoSearch
  /\ lastClose = NoClose
  /\ disk = "ok"

\* delete_conversation from any such state.
NextDelete ==
  \/ \E conv_id \in FileNames : app_delete_conversation(conv_id)
  \/ \E i \in 1..MaxConversations : on_conversation_selected(i)

SpecDelete == InitDelete /\ [][NextDelete]_vars

\* Records a directory may hold, by file: title and messages vary, and
\* updated_at may be missing ('' is tick 0).
DirRecords(f) ==
  { [id |-> f, title |-> t, messages |-> ms,
     created_at |-> 1, updated_at |-> u] :
      t \in Titles,
      ms \in { <<>>, <<Message(m_Toll)>>, <<Message(m_Hat), Message(m_Toll)>> },
      u \in { 0, 1 } }

\* Anything a file of the directory may hold.
DirContents(f) ==
  { Absent, Partial,
    [kind |-> "text", value |-> NoRecord],
    [kind |-> "array", value |-> NoRecord] }
  \cup { [kind |-> k, value |-> r] :
           k \in { "object", "object_num_time" }, r \in DirRecords(f) }

\* The process is about to start on a directory of any content.
InitManager ==
  /\ InitNav
  /\ variant = "oauth"
  /\ clock = TicksPerSecond
  /\ startup = "none"
  /\ files \in { fs \in [FileNames -> UNION { DirContents(f) : f \in FileNames }] :
                   \A f \in FileNames :
                     /\ fs[f] \in DirContents(f)
                     /\ f \notin ManagerFileNames => fs[f] = Absent }
  /\ conversations = <<>>
  /\ current_conversation = NoCurrent
  /\ lastSave = NoSave /\ lastDelete = NoDelete /\ lastSearch = NoSearch
  /\ lastClose = NoClose
  /\ disk = "ok"

\* Loading the directory and searching the loaded list.
NextManager ==
  \/ Launch
  \/ \E query \in Queries : Search(query)

SpecManager == InitManager /\ [][NextManager]_vars

\* ------------------------------------------------ the Allow-List's categories

\* Exact host or suffix match: the host is the domain or ends with '.' + it.
HostMatches(h, domain) ==
  \/ h = domain
  \/ /\ Len(h) > Len(domain) + 1
     /\ SubSeq(h, Len(h) - Len(domain), Len(h)) = s_dot \o domain

PrimaryDomains == { s_claude_ai, s_anthropic_com }

\* The identity provider's accounts host, static-content host and API host.
IdentityProviderDomains ==
  { s_accounts_google_com, s_gstatic_com, s_googleapis_com }

classify(url) ==
  IF \E d \in PrimaryDomains : HostMatches(host(url), d) THEN "Primary"
  ELSE IF \E d \in IdentityProviderDomains : HostMatches(host(url), d)
       THEN "IdentityProvider"
  ELSE "External"

\* The running variant's allow-listed domains.
AllowListed ==
  IF variant = "oauth" THEN allowed_domains ELSE enhanced_allowed_domains

\* The application's main or chat entry point.
IsReturnUrl(url) ==
  /\ classify(url) = "Primary"
  /\ url.rest \in { <<"/">>, <<"/">> \o s_chat }

UserLinkClickInMainFrame ==
  lastNav.valid /\ lastNav.nav_type = "LinkClicked" /\ lastNav.is_main_frame

HandedOff == ~lastNav.accept /\ lastNav.opened

AllowedInPlace == lastNav.accept /\ ~lastNav.opened

\* -------------------------------------------------------------------- claims

\* C1: a host that contains an allow-listed domain only as a non-suffix
\* substring (claude.ai.evil.example) is not trusted: a user's link click to
\* it is handed to the external browser and not loaded in place.
C1_SpoofedHostHandedOff ==
  ( /\ UserLinkClickInMainFrame
    /\ \E d \in AllowListed : Contains(host(lastNav.url), d)
    /\ ~ \E d \in AllowListed : HostMatches(host(lastNav.url), d) )
  => HandedOff

\* C2: the decision depends only on the host, the navigation type and the
\* main-frame flag: every URL that differs from the decided one only in its
\* path or query text gets the same decision.
C2_DecisionIgnoresPathAndQuery ==
  lastNav.valid =>
    \A u \in Urls :
      (u.scheme = lastNav.url.scheme /\ host(u) = host(lastNav.url))
        => Decide(u, lastNav.nav_type, lastNav.is_main_frame).accept
             = lastNav.accept

\* C3: a user's link click in the main frame to an External host is handed
\* to the external browser and the embedded navigation is cancelled.
C3_ExternalLinkClickHandedOff ==
  (UserLinkClickInMainFrame /\ classify(lastNav.url) = "External")
    => HandedOff

\* C4: a request to an External host that is not a user's link click, or is
\* not in the main frame, is allowed in place and opens no browser.
C4_ExternalOtherwiseAllowed ==
  ( /\ lastNav.valid
    /\ classify(lastNav.url) = "External"
    /\ (lastNav.nav_type # "LinkClicked" \/ ~lastNav.is_main_frame) )
  => AllowedInPlace

\* C5: in claude_desktop.py a request to a Primary or IdentityProvider host
\* is allowed in place, for every navigation type and main-frame flag, and
\* the system browser is not opened.
C5_TrustedAllowedInPlace ==
  ( /\ lastNav.valid
    /\ variant = "oauth"
    /\ classify(lastNav.url) \in { "Primary", "IdentityProvider" } )
  => AllowedInPlace

\* C5's case: a link click to the identity provider's static host was decided.
C5_Witness ==
  /\ lastNav.valid
  /\ variant = "oauth"
  /\ lastNav.url = U_idp_static
  /\ lastNav.nav_type = "LinkClicked"
  /\ AllowedInPlace

\* C6: a URL without a host is External: a user's link click to it in the
\* main frame is handed off and cancelled, whatever its text contains.
C6_NoHostHandedOff ==
  (UserLinkClickInMainFrame /\ host(lastNav.url) = <<>>) => HandedOff

\* C7: createWindow creates a popup only when the opener's current URL is
\* Primary or IdentityProvider.
C7_PopupOnlyFromTrustedOpener ==
  (lastCreate.valid /\ lastCreate.created)
    => classify(lastCreate.openerUrl) \in { "Primary", "IdentityProvider" }

\* C8: a popup whose URL changes to the application's return URL is still
\* open after that step; it is closed only later.
C8_ClosureIsDelayed ==
  [][ \A q \in PopupIds :
        ( /\ pages[q].exists /\ pages[q].open
          /\ pages'[q].url # pages[q].url
          /\ IsReturnUrl(pages'[q].url) )
        => pages'[q].open ]_vars

\* C9: the location-change handler closes a popup only at a URL whose host
\* is Primary and that is the application's main or chat entry point.
C9_PolicyCloseOnlyAtReturnUrl ==
  [][ \A q \in PopupIds :
        (pages[q].closedBy = "none" /\ pages'[q].closedBy = "policy")
        => IsReturnUrl(pages'[q].url) ]_vars

\* C10: once the application has quit, no popup it created is still open.
C10_NoPopupOutlivesApp ==
  app_quit => \A q \in PopupIds : pages[q].exists => ~pages[q].open

C12_PopupSharesOpenerProfile ==
  \A q \in PopupIds :
    pages[q].exists => pages[q].profile = pages[pages[q].opener].profile

\* C12's case: a popup opened by a popup.
C12_Witness ==
  \E q \in PopupIds :
    /\ pages[q].exists
    /\ pages[q].opener \in PopupIds
    /\ pages[q].profile = pages[MainPage].profile

\* C13: no two records of the conversation list have the same id, so the
\* records create_new_conversation returned are separate files; this also
\* when two of them were created within one clock second.
C13_IdsUnique ==
  \A i, j \in 1..Len(conversations) :
    i # j => conversations[i].id # conversations[j].id

\* C14: the conversation list is ordered by updated_at, most recent first,
\* after loading and after every create, rename, save and delete.
C14_ListOrderedByUpdatedAt ==
  \A i, j \in 1..Len(conversations) :
    i < j => conversations[i].updated_at >= conversations[j].updated_at

\* C15: whatever the directory holds, load_conversations does not raise:
\* the application starts, and the list holds every well-formed record of
\* the directory.
C15_LoadNeverRaises == startup # "raised"

\* C16: a save is atomic: whenever the process dies, every file of the
\* directory holds a complete record (the previous or the new version), never
\* an empty or partly written one.
C16_SaveIsAtomic ==
  \A f \in FileNames : files[f].kind \in { "absent", "object" }

\* C17: after save_conversation(r), every list load_conversations can return
\* holds exactly one record with r's id, and that record has r's title and
\* r's messages in r's order, and an updated_at not earlier than r's was.
C17_SaveLoadRoundTrip ==
  lastSave.valid
  => /\ ~LoadRaises(files)
     /\ \A l \in load_conversations(files) :
          LET hits == { i \in 1..Len(l) : l[i].id = lastSave.before.id }
          IN /\ Cardinality(hits) = 1
             /\ \A i \in hits :
                  /\ l[i].title = lastSave.before.title
                  /\ l[i].messages = lastSave.before.messages
                  /\ l[i].updated_at >= lastSave.before.updated_at

\* C17's case: a record with messages, saved at a later tick than its last
\* save, with another record in the directory.
C17_Witness ==
  /\ lastSave.valid
  /\ lastSave.before.messages # <<>>
  /\ lastSave.after.updated_at > lastSave.before.updated_at
  /\ \E f \in FileNames :
       f # lastSave.before.id /\ files[f].kind = "object"

C19_ListedRecordsHaveFiles ==
  /\ \A i \in 1..Len(conversations) :
       files[conversations[i].id].kind # "absent"
  /\ lastSearch.valid
     => \A i \in 1..Len(lastSearch.results) :
          files[lastSearch.results[i].id].kind # "absent"

\* C19's case: a delete removed a file and its record, and another record is
\* still listed.
C19_Witness ==
  /\ lastDelete.valid
  /\ lastDelete.found
  /\ conversations # <<>>

\* A record matches a query when its title, or the content of one of its
\* messages, contains the query, letter case apart.
Matches(conv, query) ==
  \/ Contains(lower(conv.title), lower(query))
  \/ \E k \in 1..Len(conv.messages) :
       Contains(lower(conv.messages[k].content), lower(query))

\* C20: search_conversations(query) returns the matching records of the
\* conversation list, each once, in the list's order, and no other record.
C20_SearchReturnsMatches ==
  lastSearch.valid
  => lastSearch.results =
       SelectSeq(conversations, LAMBDA c : Matches(c, lastSearch.query))

\* C20's case: an upper-case query that one of two listed records matches,
\* by a message only.
C20_Witness ==
  /\ lastSearch.valid
  /\ lastSearch.query = q_OL
  /\ Len(conversations) = 2
  /\ Len(lastSearch.results) = 1

\* A text of blanks only, or of nothing.
IsBlank(text) == \A k \in 1..Len(text) : text[k] \in { " ", "\t", "\n" }

\* C21: a search whose query is empty or blank shows no result, whatever
\* the store holds.
C21_BlankQueryFindsNothing ==
  (lastSearch.dialog /\ IsBlank(lastSearch.text)) => lastSearch.results = <<>>

\* C21's case: a blank query typed while the list holds records.
C21_Witness ==
  /\ lastSearch.dialog
  /\ lastSearch.text = q_blank
  /\ conversations # <<>>

\* C22: after create_new_conversation(title) on an empty store, a listing
\* holds exactly one record, with the title given, no messages, and
\* created_at equal to updated_at, and it is what the directory holds.
C22_CreateOnEmptyStore ==
  (lastSave.valid /\ lastSave.op = "create" /\ lastSave.store_was_empty)
  => /\ ~LoadRaises(files)
     /\ \A l \in load_conversations(files) :
          /\ Len(l) = 1
          /\ l[1].title = lastSave.before.title
          /\ l[1].messages = <<>>
          /\ l[1].created_at = l[1].updated_at

\* C23: updated_at of a record never decreases, and a save_conversation whose
\* write fails leaves the updated_at of the record in memory as it was.
C23_FailedSaveKeepsUpdatedAt ==
  /\ lastSave.valid
     => lastSave.after.updated_at >= lastSave.before.updated_at
  /\ lastSave.failed
     => lastSave.after.updated_at = lastSave.before.updated_at

\* C24: a write failure in save_conversation does not leave the handler as
\* an exception and does not end the process; when the handler is close_app,
\* the geometry is saved and QApplication.quit() is called all the same.
C24_WriteFailureIsHandled ==
  lastSave.failed
  => /\ ~lastSave.escaped
     /\ lastSave.op = "autosave" /\ variant = "oauth"
        => lastClose.geometry_saved /\ app_quit

\* Two records with the same id, created_at and messages.
SameIdentity(a, b) ==
  /\ a.id = b.id
  /\ a.created_at = b.created_at
  /\ a.messages = b.messages

\* C25: a save or a rename leaves id, created_at and messages of every record
\* as they were, in memory and in the file written; a save changes updated_at
\* only, a rename title and updated_at only.
C25_IdAndCreatedAtImmutable ==
  [][ (lastSave'.valid /\ lastSave'.op \in { "save", "autosave", "rename" })
      => /\ SameIdentity(lastSave'.after, lastSave'.before)
         /\ lastSave'.after.title = lastSave'.before.title
         /\ files'[lastSave'.before.id] = json_dump(lastSave'.after)
         /\ startup' = "ok"
            => /\ Len(conversations') = Len(conversations)
               /\ \A i \in 1..Len(conversations) :
                    /\ SameIdentity(conversations'[i], conversations[i])
                    /\ lastSave'.op # "rename"
                       => conversations'[i].title = conversations[i].title
         /\ (startup' = "ok" /\ current_conversation.kind = "detached")
            => /\ current_conversation'.kind = "detached"
               /\ SameIdentity(current_conversation'.rec,
                               current_conversation.rec) ]_vars

\* C25's case: a record with messages renamed and saved at a later tick.
C25_Witness ==
  /\ lastSave.valid
  /\ lastSave.op = "rename"
  /\ lastSave.before.messages # <<>>
  /\ lastSave.after.updated_at > lastSave.before.updated_at
  /\ lastSave.after.title # SeedRecord.title

\* C26: the file a save writes is named by the id of the record it holds,
\* also when the record passed to save_conversation has no id.
C26_FileNamedByRecordId ==
  lastSave.valid
  => \E f \in FileNames :
       /\ files[f] = json_dump(lastSave.after)
       /\ files[f].value.id = f

\* C27: a file that is not in the directory comes into it by an explicit
\* create only: a record deleted through the list is not written back by a
\* later save, in particular not by the auto-save at quit when it was the
\* current conversation, so a restart does not list it.
C27_DeletedStaysDeleted ==
  [][ \A f \in FileNames :
        (files[f].kind = "absent" /\ files'[f].kind # "absent")
        => lastSave'.op = "create" ]_vars

\* C30: the handler of a Quit (the tray menu's Quit, Ctrl+Q) ends with
\* QApplication.quit() called, whatever minimize_to_tray and the tray icon
\* are; closing the window while it minimizes to the tray only hides it:
\* no save, no quit.
C30_QuitLeadsToQuit ==
  /\ (lastClose.ui = "quit" /\ ~lastSave.failed) => app_quit
  /\ (lastClose.ui = "close_window" /\ lastClose.to_tray)
     => ~app_quit /\ lastSave = NoSave

\* C28: in both variants, for every navigation request, the system browser is
\* opened (QDesktopServices.openUrl) exactly when acceptNavigationRequest
\* returns False: no request is both opened externally and loaded in place,
\* and none is cancelled without being opened externally.
C28_HandOffIffCancelled ==
  lastNav.valid =>
    /\ lastNav.opened <=> ~lastNav.accept
    /\ ~(lastNav.opened /\ lastNav.accept)
    /\ ~(~lastNav.accept /\ ~lastNav.opened)

\* A clicked link to a foreign host, cancelled and opened in the system
\* browser by the enhanced variant.
C28_Witness ==
  /\ variant = "enhanced"
  /\ lastNav.valid /\ lastNav.nav_type = "LinkClicked" /\ lastNav.url = U_ext
  /\ ~lastNav.accept /\ lastNav.opened

\* The decision claude_desktop.py takes on the last request, and the one
\* claude_desktop_enhanced.py takes on the same request.
OAuthDecision ==
  acceptNavigationRequest(lastNav.url, lastNav.nav_type, lastNav.is_main_frame)

EnhancedDecision ==
  enhanced_acceptNavigationRequest(lastNav.url, lastNav.nav_type,
                                   lastNav.is_main_frame)

\* The host contains an identity-provider name or an allow-listed domain of
\* either variant.
HostNamesProviderOrAllowListed(url) ==
  \/ Contains(host(url), s_google) \/ Contains(host(url), s_gstatic)
  \/ Contains(host(url), s_googleapis)
  \/ \E domain \in allowed_domains \union enhanced_allowed_domains :
       Contains(host(url), domain)

\* The URL's text contains 'oauth' or 'callback' as written.
TextHasFlowWord(url) ==
  Contains(toString(url), s_oauth) \/ Contains(toString(url), s_callback)

\* The URL's text contains 'oauth' or 'callback' in any letter case.
TextHasFlowWordAnyCase(url) ==
  \/ Contains(lower(toString(url)), s_oauth)
  \/ Contains(lower(toString(url)), s_callback)

\* The request claude_desktop.py hands off, claude_desktop_enhanced.py hands
\* off too.
OAuthHandOffImpliesEnhanced ==
  (~OAuthDecision.accept /\ OAuthDecision.opened)
    => (~EnhancedDecision.accept /\ EnhancedDecision.opened)

====
